---------------------------- MODULE Spec2Model ----------------------------
(***************************************************************************)
(* Model of tunisport_scraper.py: a sequential crawler over a three-level  *)
(* catalog (brand -> model -> submodel).  The state is the position of the *)
(* single thread of control in main / scrape_brand / get_response, the     *)
(* local variables of those functions, the ledger file on disk and the     *)
(* workbook of the brand being scraped.  The web site, the file system and *)
(* the spreadsheet library are the environment: every outcome they can     *)
(* produce is a nondeterministic choice.                                   *)
(***************************************************************************)
EXTENDS Integers, Sequences, FiniteSets, TLC

(* ------------------------------ bounds --------------------------------- *)
\* largest number of distinct brands the catalog page lists
MaxBrands == 6
\* largest number of models on a brand page
MaxModels == 2
\* largest number of submodels on a model page
MaxSubs == 2
\* number of foreign lines in a ledger file left by runs on an earlier catalog
MaxStale == 5
\* longest submodel caption of an item named alone (the model caption is one
\* character shorter)
MaxCaption == 3
\* longest caption of two items of one brand named one after the other
MaxPairCaption == 1

(* ------------------------- program constants --------------------------- *)
MAX_RETRIES == 3
\* the literal of "len(processed_brands) > 4"
BRAND_CAP == 4

VARIABLES
    catalog,            \* the brand URLs listed on the catalog page, in order
    ledgerFile,         \* lines of processed_brands.txt (absent file = <<>>)
    pc,                 \* position of the thread of control
    brands,             \* main: result of get_brands()
    processed_brands,   \* main: the in-memory ledger
    bi,                 \* main: index of "for brand in brands"
    result,             \* main: what scrape_brand returned for brands[bi]
    models,             \* scrape_brand: scrape_page(url)['items'] of line 324
    mi,                 \* scrape_brand: index of "for model in ..."
    model_page,         \* scrape_brand: items of the model page
    si,                 \* scrape_brand: index of "for submodel in ..."
    workbook,           \* scrape_brand: "none", "open", "closed", "close_failed"
    rows,               \* worksheet: rows[i] is the leaf written at row i
    widths,             \* worksheet: widths set on column 2, in order
    row_count,          \* scrape_brand: row_count
    max_image_width,    \* scrape_brand: max_image_width
    retval,             \* scrape_brand: value returned after finish_brand_scraping
    url,                \* get_response: url
    attempt,            \* get_response: loop variable
    r,                  \* get_response: outcome of the last requests.get
    resp,               \* get_response: returned value ("None" or "ok")
    ret,                \* get_response: call site to return to
    trace,              \* history: requests and sleeps of the current call
    undelayed,          \* history: requests minus sleeps since process start
    startLedger,        \* history: ledger file when the process started
    loaded,             \* history: what load_brand_list returned
    listing,            \* history: outcome of get_brands
    scrapeCalls,        \* history: calls of scrape_brand in this run
    fetched,            \* history: URLs requested in this run
    opened,             \* history: brands a workbook was created for in this run
    ledgerWrites,       \* history: calls of save_brand_list in this run
    fault,              \* history: the environment failed some step of this run
    saved,              \* history: outcome of the last save_brand_list of this run
    nameItems,          \* save_item: the items whose file names are derived
    image_names         \* save_item: image_name of each item named so far

mainVars == <<brands, processed_brands, bi, result>>
brandVars == <<models, mi, model_page, si, workbook, rows, widths, row_count,
               max_image_width, retval>>
grVars == <<url, attempt, r, resp, ret, trace, undelayed>>
histVars == <<startLedger, loaded, listing, scrapeCalls, fetched, opened,
              ledgerWrites, fault>>
nameVars == <<nameItems, image_names>>
vars == <<catalog, ledgerFile, pc, mainVars, brandVars, grVars, histVars, saved,
          nameVars>>

(* ------------------------------ the site ------------------------------- *)
Range(s) == {s[i] : i \in DOMAIN s}

BRANDS_URL == <<"brands">>
BrandUrl(b) == <<"brand", b>>
ModelUrl(b, m) == <<"model", b, m>>
ImageUrl(b, m, s) == <<"image", b, m, s>>

\* The catalog page: brands 1..n in order, the first one possibly listed twice.
Catalog(n, dup) ==
    IF dup /\ n > 0 THEN <<1>> \o [i \in 1..n |-> i] ELSE [i \in 1..n |-> i]

\* A brand page lists ModelsOf(b) models, a model page SubsOf(b, m) submodels.
ModelsOf(b) == b % (MaxModels + 1)
SubsOf(b, m) == (b + m) % (MaxSubs + 1)
ModelItems(b) == [m \in 1..ModelsOf(b) |-> m]
SubItems(b, m) == [s \in 1..SubsOf(b, m) |-> s]

\* Pixel width of the image of a leaf.
ImageWidth(b, m, s) == 50 * (1 + ((3 * b + 2 * m + 3 * s) % 4))

\* Every leaf of a brand, in traversal order.
RECURSIVE LeavesFrom(_, _)
LeavesFrom(b, m) ==
    IF m > ModelsOf(b) THEN <<>>
    ELSE [s \in 1..SubsOf(b, m) |-> <<m, s>>] \o LeavesFrom(b, m + 1)
Leaves(b) == LeavesFrom(b, 1)

\* Lines left in the ledger file by runs against an earlier catalog.
StaleLedger(k) == [i \in 1..k |-> 100 + i]

(* --------------------------- pure helpers ------------------------------ *)
\* mutant: the loop runs one iteration too many
MoreAttemptsMut(a) == a <= MAX_RETRIES
\* range(0, MAX_RETRIES): is there another iteration
MoreAttempts(a) == a < MAX_RETRIES

\* mutant: the except branch retries at once, without the sleep
ExceptBodyMut == <<>>
\* the except branch of get_response: what it does after a transport failure
ExceptBody == <<"sleep">>
\* the else branch of get_response: what it does after a completed response
ElseBody == <<"sleep">>

\* mutant: the status of a completed response is not looked at
StatusNotOkMut(o) == FALSE
\* r.status_code != requests.codes.ok
StatusNotOk(o) == o # "ok"

\* mutant: the ledger is not consulted
NotProcessedMut(b, p) == TRUE
\* brand['url'] not in processed_brands
NotProcessed(b, p) == b \notin Range(p)

\* mutant: the cap is off by one
CapReachedMut(p) == Len(p) > BRAND_CAP + 1
\* len(processed_brands) > 4
CapReached(p) == Len(p) > BRAND_CAP

\* mutant: a failed save_item does not fail the brand
ItemErrorResultMut == "true"
\* "return False" after a failed save_item (line 341)
ItemErrorResult == "false"
\* "return False" in the handler of line 342
ExceptionResultMut == "true"
ExceptionResult == "false"

\* Lines 339-341 and 344-345: a failed item or a caught exception goes through
\* finish_brand_scraping() before scrape_brand returns.
AfterErrorMut == "main_ret"
AfterError == "sb_finish"

\* Line 328: row_count += 1
NextRowMut(rc) == rc
NextRow(rc) == rc + 1
\* "return True" at the end of scrape_brand, whatever finish_brand_scraping returned
FinishedResult(closed) == "true"

\* mutant: a failed save_brand_list ends the run
AfterSaveMut(o) == IF o = "ok" THEN "cap" ELSE "halted"
\* main, line 88: what save_brand_list returned is not looked at
AfterSave(o) == "cap"

\* mutant: main goes on with the next brand after a failed one
AfterFailureMut == "cap"
\* main, lines 89-91: the position after a failed scrape_brand
AfterFailure == "halted"

\* mutant: the list is saved as it was before the append
WriteLinesMut(p) == SubSeq(p, 1, Len(p) - 1)
\* save_brand_list, lines 353-354: one line per brand, in list order
WriteLines(p) == [i \in 1..Len(p) |-> p[i]]
\* load_brand_list, lines 368 and 373: the stripped lines, in file order
ReadLines(f) == [i \in 1..Len(f) |-> f[i]]

Requests(t) == Cardinality({i \in DOMAIN t : t[i] # "sleep"})
Sleeps(t) == Cardinality({i \in DOMAIN t : t[i] = "sleep"})

(* ------------------------------- Init ---------------------------------- *)
RunInit ==
    /\ pc = "start"
    /\ brands = <<>>
    /\ processed_brands = <<>>
    /\ bi = 0
    /\ result = "none"
    /\ models = <<>>
    /\ mi = 0
    /\ model_page = <<>>
    /\ si = 0
    /\ workbook = "none"
    /\ rows = <<>>
    /\ widths = <<>>
    /\ row_count = 0
    /\ max_image_width = 0
    /\ retval = "none"
    /\ url = <<>>
    /\ attempt = 0
    /\ r = "none"
    /\ resp = "none"
    /\ ret = "none"
    /\ trace = <<>>
    /\ undelayed = 0
    /\ loaded = <<>>
    /\ listing = "pending"
    /\ scrapeCalls = 0
    /\ fetched = {}
    /\ opened = {}
    /\ ledgerWrites = 0
    /\ fault = FALSE
    /\ saved = "none"

Init ==
    /\ \E n \in 0..MaxBrands, dup \in BOOLEAN : catalog = Catalog(n, dup)
    /\ \E k \in {0, MaxStale} : ledgerFile = StaleLedger(k)
    /\ startLedger = ledgerFile
    /\ RunInit
    /\ nameItems = <<>>
    /\ image_names = <<>>

(* ---------------------------- get_response ----------------------------- *)
\* Entering get_response(u) from the call site `site`.
Call(u, site) ==
    /\ url' = u
    /\ attempt' = 0
    /\ r' = "none"
    /\ resp' = "none"
    /\ ret' = site
    /\ trace' = <<>>
    /\ pc' = "gr_loop"
    /\ UNCHANGED undelayed

\* Lines 127-130: one more iteration; requests.get completes with a success
\* status, completes with another status, or raises RequestException.
GrAttempt ==
    /\ pc = "gr_loop"
    /\ MoreAttempts(attempt)
    /\ \E o \in {"ok", "status", "transport"} :
        /\ r' = o
        /\ trace' = Append(trace, o)
        /\ fault' = (fault \/ o # "ok")
        /\ pc' = IF o = "transport" THEN "gr_except" ELSE "gr_else"
    /\ undelayed' = undelayed + 1
    /\ fetched' = fetched \cup {url}
    /\ UNCHANGED <<catalog, ledgerFile, mainVars, brandVars, url, attempt, resp,
                   ret, startLedger, loaded, listing, scrapeCalls, opened,
                   ledgerWrites>>
    /\ UNCHANGED <<saved, nameVars>>

\* Lines 131-132: the except branch, then the next iteration.
GrExcept ==
    /\ pc = "gr_except"
    /\ trace' = trace \o ExceptBody
    /\ undelayed' = undelayed - Sleeps(ExceptBody)
    /\ attempt' = attempt + 1
    /\ pc' = "gr_loop"
    /\ UNCHANGED <<catalog, ledgerFile, mainVars, brandVars, url, r, resp, ret,
                   histVars>>
    /\ UNCHANGED <<saved, nameVars>>

\* Lines 133-138: the else branch returns the response or None.
GrElse ==
    /\ pc = "gr_else"
    /\ trace' = trace \o ElseBody
    /\ undelayed' = undelayed - Sleeps(ElseBody)
    /\ resp' = IF StatusNotOk(r) THEN "None" ELSE "ok"
    /\ pc' = ret
    /\ UNCHANGED <<catalog, ledgerFile, mainVars, brandVars, url, attempt, r,
                   ret, histVars>>
    /\ UNCHANGED <<saved, nameVars>>

\* Lines 140-141: the loop ran out of iterations.
GrExhausted ==
    /\ pc = "gr_loop"
    /\ ~MoreAttempts(attempt)
    /\ resp' = "None"
    /\ pc' = ret
    /\ UNCHANGED <<catalog, ledgerFile, mainVars, brandVars, url, attempt, r,
                   ret, trace, undelayed, histVars>>
    /\ UNCHANGED <<saved, nameVars>>

(* -------------------------------- main --------------------------------- *)
\* Lines 69-74 and 212: main calls get_brands, which requests BRANDS_URL.
MainStart ==
    /\ pc = "start"
    /\ Call(BRANDS_URL, "get_brands")
    /\ UNCHANGED <<catalog, ledgerFile, mainVars, brandVars, histVars>>
    /\ UNCHANGED <<saved, nameVars>>

\* Lines 213-230 and 73-80: get_brands returns None (and len(None) raises out
\* of main), raises while parsing (caught at line 75), or returns the list.
GetBrandsReturn ==
    /\ pc = "get_brands"
    /\ \/ /\ resp = "None"
          /\ listing' = "fetch_failed"
          /\ pc' = "crashed"
          /\ UNCHANGED <<brands, fault>>
       \/ /\ resp = "ok"
          /\ listing' = "parse_failed"
          /\ fault' = TRUE
          /\ pc' = "fatal"
          /\ UNCHANGED brands
       \/ /\ resp = "ok"
          /\ listing' = "ok"
          /\ brands' = catalog
          /\ pc' = "load"
          /\ UNCHANGED fault
    /\ UNCHANGED <<catalog, ledgerFile, processed_brands, bi, result, brandVars,
                   grVars, startLedger, loaded, scrapeCalls, fetched, opened,
                   ledgerWrites>>
    /\ UNCHANGED <<saved, nameVars>>

\* Lines 81-82 and 362-373: the lines of the file, or [] when reading an
\* existing file raises OSError.
LoadBrandList ==
    /\ pc = "load"
    /\ \/ /\ processed_brands' = ReadLines(ledgerFile)
          /\ UNCHANGED fault
       \/ /\ ledgerFile # <<>>
          /\ processed_brands' = <<>>
          /\ fault' = TRUE
    /\ loaded' = processed_brands'
    /\ bi' = 1
    /\ pc' = "loop"
    /\ UNCHANGED <<catalog, ledgerFile, brands, result, brandVars, grVars,
                   startLedger, listing, scrapeCalls, fetched, opened,
                   ledgerWrites>>
    /\ UNCHANGED <<saved, nameVars>>

\* Lines 84-86 and 297-300: the next brand of the loop; scrape_brand is called
\* for a brand that is not in processed_brands and requests the brand page.
MainLoop ==
    /\ pc = "loop"
    /\ \/ /\ bi > Len(brands)
          /\ pc' = "done"
          /\ UNCHANGED <<result, brandVars, grVars, scrapeCalls>>
       \/ /\ bi <= Len(brands)
          /\ ~NotProcessed(brands[bi], processed_brands)
          /\ result' = "none"
          /\ pc' = "cap"
          /\ UNCHANGED <<brandVars, grVars, scrapeCalls>>
       \/ /\ bi <= Len(brands)
          /\ NotProcessed(brands[bi], processed_brands)
          /\ result' = "none"
          /\ scrapeCalls' = scrapeCalls + 1
          /\ models' = <<>>
          /\ mi' = 0
          /\ model_page' = <<>>
          /\ si' = 0
          /\ workbook' = "none"
          /\ rows' = <<>>
          /\ widths' = <<>>
          /\ row_count' = 0
          /\ max_image_width' = 0
          /\ retval' = "none"
          /\ Call(BrandUrl(brands[bi]), "sb_page1")
    /\ UNCHANGED <<catalog, ledgerFile, brands, processed_brands, bi,
                   startLedger, loaded, listing, fetched, opened, ledgerWrites,
                   fault>>
    /\ UNCHANGED <<saved, nameVars>>

(* ---------------------------- scrape_brand ----------------------------- *)
HeaderRow == <<0, 0>>

\* Lines 300-324: the first scrape_page(url) fails (None or an exception,
\* both caught at line 302), the workbook cannot be created, or the workbook
\* is opened, the header written and the brand page requested a second time.
SbPage1Return ==
    /\ pc = "sb_page1"
    /\ \/ /\ resp = "None"
          /\ result' = "false"
          /\ pc' = "main_ret"
          /\ UNCHANGED <<brandVars, grVars, opened, fault>>
       \/ /\ resp = "ok"
          /\ result' = "false"
          /\ fault' = TRUE
          /\ pc' = "main_ret"
          /\ UNCHANGED <<brandVars, grVars, opened>>
       \/ /\ resp = "ok"
          /\ workbook' = "open"
          /\ opened' = opened \cup {brands[bi]}
          /\ rows' = (0 :> HeaderRow)
          /\ row_count' = 0
          /\ max_image_width' = 0
          /\ Call(BrandUrl(brands[bi]), "sb_page2")
          /\ UNCHANGED <<result, models, mi, model_page, si, widths, retval,
                         fault>>
    /\ UNCHANGED <<catalog, ledgerFile, brands, processed_brands, bi,
                   startLedger, loaded, listing, scrapeCalls, fetched,
                   ledgerWrites>>
    /\ UNCHANGED <<saved, nameVars>>

\* Line 324: the second scrape_page(url); None or an exception is caught at
\* line 342.
SbPage2Return ==
    /\ pc = "sb_page2"
    /\ \/ /\ resp = "None"
          /\ retval' = ExceptionResult
          /\ pc' = AfterError
          /\ UNCHANGED <<models, mi, fault>>
       \/ /\ resp = "ok"
          /\ retval' = ExceptionResult
          /\ fault' = TRUE
          /\ pc' = AfterError
          /\ UNCHANGED <<models, mi>>
       \/ /\ resp = "ok"
          /\ models' = ModelItems(brands[bi])
          /\ mi' = 1
          /\ pc' = "sb_models"
          /\ UNCHANGED <<retval, fault>>
    /\ UNCHANGED <<catalog, ledgerFile, mainVars, model_page, si, workbook, rows,
                   widths, row_count, max_image_width, grVars, startLedger,
                   loaded, listing, scrapeCalls, fetched, opened, ledgerWrites>>
    /\ UNCHANGED <<saved, nameVars>>

\* Lines 324-326 and 347: the next model page is requested, or the loop is over.
SbModelLoop ==
    /\ pc = "sb_models"
    /\ \/ /\ mi > Len(models)
          /\ retval' = "finished"
          /\ pc' = "sb_finish"
          /\ UNCHANGED grVars
       \/ /\ mi <= Len(models)
          /\ Call(ModelUrl(brands[bi], models[mi]), "sb_model")
          /\ UNCHANGED retval
    /\ UNCHANGED <<catalog, ledgerFile, mainVars, models, mi, model_page, si,
                   workbook, rows, widths, row_count, max_image_width, histVars>>
    /\ UNCHANGED <<saved, nameVars>>

\* Lines 326-327: scrape_page(model['url']); None or an exception is caught at
\* line 342.
SbModelReturn ==
    /\ pc = "sb_model"
    /\ \/ /\ resp = "None"
          /\ retval' = ExceptionResult
          /\ pc' = AfterError
          /\ UNCHANGED <<model_page, si, fault>>
       \/ /\ resp = "ok"
          /\ retval' = ExceptionResult
          /\ fault' = TRUE
          /\ pc' = AfterError
          /\ UNCHANGED <<model_page, si>>
       \/ /\ resp = "ok"
          /\ model_page' = SubItems(brands[bi], models[mi])
          /\ si' = 1
          /\ pc' = "sb_subs"
          /\ UNCHANGED <<retval, fault>>
    /\ UNCHANGED <<catalog, ledgerFile, mainVars, models, mi, workbook, rows,
                   widths, row_count, max_image_width, grVars, startLedger,
                   loaded, listing, scrapeCalls, fetched, opened, ledgerWrites>>
    /\ UNCHANGED <<saved, nameVars>>

\* Lines 327-337, 254-269 and 145: the next submodel: row_count is incremented,
\* the folder cannot be created (save_item returns None) or the image is
\* requested; after the last submodel the next model.
SbSubLoop ==
    /\ pc = "sb_subs"
    /\ \/ /\ si > Len(model_page)
          /\ mi' = mi + 1
          /\ pc' = "sb_models"
          /\ UNCHANGED <<row_count, retval, grVars, fault>>
       \/ /\ si <= Len(model_page)
          /\ row_count' = NextRow(row_count)
          /\ retval' = ItemErrorResult
          /\ fault' = TRUE
          /\ pc' = AfterError
          /\ UNCHANGED <<mi, grVars>>
       \/ /\ si <= Len(model_page)
          /\ row_count' = NextRow(row_count)
          /\ Call(ImageUrl(brands[bi], models[mi], model_page[si]), "save_image")
          /\ UNCHANGED <<mi, retval, fault>>
    /\ UNCHANGED <<catalog, ledgerFile, mainVars, models, model_page, si,
                   workbook, rows, widths, max_image_width, startLedger, loaded,
                   listing, scrapeCalls, fetched, opened, ledgerWrites>>
    /\ UNCHANGED <<saved, nameVars>>

MaxMut(a, b) == a
\* max(image_width, max_image_width)
Max(a, b) == IF a >= b THEN a ELSE b

\* Lines 147-157, 269-283 and 339-341: save_image returns False (r is None, or
\* the file cannot be written) and save_item None; Image.open raises (caught
\* at line 342); or the row is written and the column width set.
SaveImageReturn ==
    /\ pc = "save_image"
    /\ \/ /\ resp = "None"
          /\ retval' = ItemErrorResult
          /\ pc' = AfterError
          /\ UNCHANGED <<si, rows, widths, max_image_width, fault>>
       \/ /\ resp = "ok"
          /\ retval' = ItemErrorResult
          /\ fault' = TRUE
          /\ pc' = AfterError
          /\ UNCHANGED <<si, rows, widths, max_image_width>>
       \/ /\ resp = "ok"
          /\ retval' = ExceptionResult
          /\ fault' = TRUE
          /\ pc' = AfterError
          /\ UNCHANGED <<si, rows, widths, max_image_width>>
       \/ /\ resp = "ok"
          /\ LET w == Max(ImageWidth(brands[bi], models[mi], model_page[si]),
                          max_image_width)
             IN /\ max_image_width' = w
                /\ widths' = Append(widths, w)
          /\ rows' = (row_count :> <<models[mi], model_page[si]>>) @@ rows
          /\ si' = si + 1
          /\ pc' = "sb_subs"
          /\ UNCHANGED <<retval, fault>>
    /\ UNCHANGED <<catalog, ledgerFile, mainVars, models, mi, model_page,
                   workbook, row_count, grVars, startLedger, loaded, listing,
                   scrapeCalls, fetched, opened, ledgerWrites>>
    /\ UNCHANGED <<saved, nameVars>>

\* Lines 289-295 with 340-341, 344-345 and 347-348: workbook.close() succeeds
\* or raises; what finish_brand_scraping returns is dropped and scrape_brand
\* returns the value its caller line chose.
FinishBrandScraping ==
    /\ pc = "sb_finish"
    /\ \/ /\ workbook' = "closed"
          /\ result' = IF retval = "finished" THEN FinishedResult(TRUE)
                       ELSE retval
          /\ UNCHANGED fault
       \/ /\ workbook' = "close_failed"
          /\ result' = IF retval = "finished" THEN FinishedResult(FALSE)
                       ELSE retval
          /\ fault' = TRUE
    /\ pc' = "main_ret"
    /\ UNCHANGED <<catalog, ledgerFile, brands, processed_brands, bi, models, mi,
                   model_page, si, rows, widths, row_count, max_image_width,
                   retval, grVars, startLedger, loaded, listing, scrapeCalls,
                   fetched, opened, ledgerWrites>>
    /\ UNCHANGED <<saved, nameVars>>

(* --------------------------- main, continued --------------------------- *)
\* Lines 86-91 and 351-359: a scraped brand is appended and the list saved
\* (the file is rewritten, is left as it was when open() raises, or is left
\* truncated when the write raises); a failed brand ends the run.
MainAfterScrape ==
    /\ pc = "main_ret"
    /\ \/ /\ result = "true"
          /\ processed_brands' = Append(processed_brands, brands[bi])
          /\ ledgerWrites' = ledgerWrites + 1
          /\ \/ /\ ledgerFile' = WriteLines(processed_brands')
                /\ saved' = "ok"
                /\ UNCHANGED fault
             \/ /\ ledgerFile' = ledgerFile
                /\ saved' = "failed"
                /\ fault' = TRUE
             \/ /\ ledgerFile' = <<>>
                /\ saved' = "failed"
                /\ fault' = TRUE
          /\ pc' = AfterSave(saved')
       \/ /\ result = "false"
          /\ pc' = AfterFailure
          /\ UNCHANGED <<ledgerFile, processed_brands, ledgerWrites, fault, saved>>
    /\ UNCHANGED <<catalog, brands, bi, result, brandVars, grVars, startLedger,
                   loaded, listing, scrapeCalls, fetched, opened>>
    /\ UNCHANGED nameVars

\* Lines 93-94: the break, or the next iteration.
MainCap ==
    /\ pc = "cap"
    /\ \/ /\ CapReached(processed_brands)
          /\ pc' = "done"
          /\ UNCHANGED bi
       \/ /\ ~CapReached(processed_brands)
          /\ bi' = bi + 1
          /\ pc' = "loop"
    /\ UNCHANGED <<catalog, ledgerFile, brands, processed_brands, result,
                   brandVars, grVars, histVars>>
    /\ UNCHANGED <<saved, nameVars>>

\* The process has ended (line 96, line 78, line 91, or the uncaught error of
\* line 80) and the script is invoked again: same site, the file as it is.
Invoke ==
    /\ pc \in {"done", "fatal", "halted", "crashed"}
    /\ pc' = "start"
    /\ brands' = <<>>
    /\ processed_brands' = <<>>
    /\ bi' = 0
    /\ result' = "none"
    /\ models' = <<>>
    /\ mi' = 0
    /\ model_page' = <<>>
    /\ si' = 0
    /\ workbook' = "none"
    /\ rows' = <<>>
    /\ widths' = <<>>
    /\ row_count' = 0
    /\ max_image_width' = 0
    /\ retval' = "none"
    /\ url' = <<>>
    /\ attempt' = 0
    /\ r' = "none"
    /\ resp' = "none"
    /\ ret' = "none"
    /\ trace' = <<>>
    /\ undelayed' = 0
    /\ loaded' = <<>>
    /\ listing' = "pending"
    /\ scrapeCalls' = 0
    /\ fetched' = {}
    /\ opened' = {}
    /\ ledgerWrites' = 0
    /\ fault' = FALSE
    /\ saved' = "none"
    /\ UNCHANGED nameVars
    /\ startLedger' = ledgerFile
    /\ UNCHANGED <<catalog, ledgerFile>>

Next ==
    \/ MainStart
    \/ GrAttempt
    \/ GrExcept
    \/ GrElse
    \/ GrExhausted
    \/ GetBrandsReturn
    \/ LoadBrandList
    \/ MainLoop
    \/ SbPage1Return
    \/ SbPage2Return
    \/ SbModelLoop
    \/ SbModelReturn
    \/ SbSubLoop
    \/ SaveImageReturn
    \/ FinishBrandScraping
    \/ MainAfterScrape
    \/ MainCap
    \/ Invoke

Spec == Init /\ [][Next]_vars

(* ------------------------------- crashes ------------------------------- *)
\* The process is killed in the middle of a run and the script is invoked
\* again.  A kill inside save_brand_list, between open(..., 'w') and the
\* write reaching the disk, leaves the file truncated.
Killed ==
    /\ pc \notin {"start", "done", "fatal", "halted", "crashed"}
    /\ \/ UNCHANGED ledgerFile
       \/ /\ pc = "main_ret"
          /\ result = "true"
          /\ ledgerFile' = <<>>
    /\ startLedger' = ledgerFile'
    /\ pc' = "start"
    /\ brands' = <<>>
    /\ processed_brands' = <<>>
    /\ bi' = 0
    /\ result' = "none"
    /\ models' = <<>>
    /\ mi' = 0
    /\ model_page' = <<>>
    /\ si' = 0
    /\ workbook' = "none"
    /\ rows' = <<>>
    /\ widths' = <<>>
    /\ row_count' = 0
    /\ max_image_width' = 0
    /\ retval' = "none"
    /\ url' = <<>>
    /\ attempt' = 0
    /\ r' = "none"
    /\ resp' = "none"
    /\ ret' = "none"
    /\ trace' = <<>>
    /\ undelayed' = 0
    /\ loaded' = <<>>
    /\ listing' = "pending"
    /\ scrapeCalls' = 0
    /\ fetched' = {}
    /\ opened' = {}
    /\ ledgerWrites' = 0
    /\ fault' = FALSE
    /\ saved' = "none"
    /\ UNCHANGED <<catalog, nameVars>>

NextCrash == Next \/ Killed

SpecCrash == Init /\ [][NextCrash]_vars

(* --------------------- save_item: the image file name ------------------ *)
\* Strings are sequences of one-character strings.
FORBIDDEN_CHARS == {"<", ">", ":", "\"", "/", "\\", "|", "?", "*"}
Whitespace == {" ", "\t", "\n"}

\* re.sub(FORBIDDEN_CHAR_RE, '-', s)
SubForbidden(s) ==
    [i \in 1..Len(s) |-> IF s[i] \in FORBIDDEN_CHARS THEN "-" ELSE s[i]]

\* s without its longest initial part made of characters of S
RECURSIVE DropRun(_, _)
DropRun(s, S) ==
    IF s # <<>> /\ s[1] \in S THEN DropRun(Tail(s), S) ELSE s

\* re.sub(r'[S]+', '-', s): every maximal run of characters of S becomes "-"
RECURSIVE CollapseRuns(_, _)
CollapseRuns(s, S) ==
    IF s = <<>> THEN <<>>
    ELSE IF s[1] \in S THEN <<"-">> \o CollapseRuns(DropRun(s, S), S)
    ELSE <<s[1]>> \o CollapseRuns(Tail(s), S)

\* re.sub(r'\s+', '-', s)
SubWhitespace(s) == CollapseRuns(s, Whitespace)
\* re.sub(r'-+', '-', s)
SubDashes(s) == CollapseRuns(s, {"-"})

\* re.sub(r'-\.\.\.$', '', s)
StripEllipsis(s) ==
    IF Len(s) >= 4 /\ SubSeq(s, Len(s) - 3, Len(s)) = <<"-", ".", ".", ".">>
    THEN SubSeq(s, 1, Len(s) - 4)
    ELSE s

\* u.split('.')[-1]: what follows the last "." (all of u when it has none)
RECURSIVE Extension(_)
Extension(u) ==
    IF \E i \in DOMAIN u : u[i] = "." THEN Extension(Tail(u)) ELSE u

\* Lines 254-259: image_name of an item.
ImageName(item) ==
    StripEllipsis(SubDashes(SubWhitespace(SubForbidden(
        item.brand \o <<"-">> \o item.model \o <<"-">> \o item.submodel))))
    \o <<".">> \o Extension(item.image_url)

\* Characters the captions of the modelled pages are made of.
NameChars == {"a", " ", "-", "/", "."}

\* Strings over NameChars of length n
RECURSIVE StringsOf(_)
StringsOf(n) ==
    IF n = 0 THEN {<<>>}
    ELSE {Append(t, c) : t \in StringsOf(n - 1), c \in NameChars}

\* Captions as scrape_page returns them (lines 187, 188, 200): stripped.
Stripped(t) == t = <<>> \/ (t[1] \notin Whitespace /\ t[Len(t)] \notin Whitespace)
Captions(n) == {t \in UNION {StringsOf(k) : k \in 0..n} : Stripped(t)}

\* Image URLs as scrape_page builds them (line 198): host plus path.
HostUrl == <<"h", ".", "e">>
ImageUrls ==
    {HostUrl \o <<"/", "a", ".", "p">>,
     HostUrl \o <<"/", "a">>,
     HostUrl \o <<"/", "a", ".", "p", "?", "a">>}

Item(b, m, sm, u) == [brand |-> b, model |-> m, submodel |-> sm, image_url |-> u]

\* One item with longer captions, or two items of the same brand with the same
\* image URL.
NameInputs ==
    {<<Item(b, m, sm, u)>> :
        b \in Captions(MaxPairCaption), m \in Captions(MaxCaption - 1),
        sm \in Captions(MaxCaption), u \in ImageUrls}
    \cup
    {<<Item(b, q[1], q[2], u), Item(b, q[3], q[4], u)>> :
        b \in Captions(MaxPairCaption),
        q \in Captions(MaxPairCaption) \X Captions(MaxPairCaption)
              \X Captions(MaxPairCaption) \X Captions(MaxPairCaption),
        u \in ImageUrls}

InitName ==
    /\ pc = "save_item"
    /\ catalog = <<>>
    /\ ledgerFile = <<>>
    /\ startLedger = <<>>
    /\ brands = <<>>
    /\ processed_brands = <<>>
    /\ bi = 0
    /\ result = "none"
    /\ models = <<>>
    /\ mi = 0
    /\ model_page = <<>>
    /\ si = 0
    /\ workbook = "none"
    /\ rows = <<>>
    /\ widths = <<>>
    /\ row_count = 0
    /\ max_image_width = 0
    /\ retval = "none"
    /\ url = <<>>
    /\ attempt = 0
    /\ r = "none"
    /\ resp = "none"
    /\ ret = "none"
    /\ trace = <<>>
    /\ undelayed = 0
    /\ loaded = <<>>
    /\ listing = "pending"
    /\ scrapeCalls = 0
    /\ fetched = {}
    /\ opened = {}
    /\ ledgerWrites = 0
    /\ fault = FALSE
    /\ saved = "none"
    /\ nameItems \in NameInputs
    /\ image_names = <<>>

\* save_item, lines 254-259, for the next item.
SaveItemName ==
    /\ pc = "save_item"
    /\ Len(image_names) < Len(nameItems)
    /\ image_names' = Append(image_names, ImageName(nameItems[Len(image_names) + 1]))
    /\ UNCHANGED <<catalog, ledgerFile, pc, mainVars, brandVars, grVars,
                   histVars, saved, nameItems>>

NextName == SaveItemName

SpecName == InitName /\ [][NextName]_vars

(* ------------------------------ properties ----------------------------- *)
\* positions at which get_response has just returned to its caller
RetSites == {"get_brands", "sb_page1", "sb_page2", "sb_model", "save_image"}

\* the outcomes of the requests of a call, without the sleeps
RequestSeq(t) == SelectSeq(t, LAMBDA e : e # "sleep")

\* the brand main is at
CurrentBrand == brands[bi]

\* header plus one row per leaf of brand b, at rows 1..N in traversal order
FullSheet(b) ==
    [i \in 0..Len(Leaves(b)) |-> IF i = 0 THEN HeaderRow ELSE Leaves(b)[i]]

\* C1: a brand URL enters the ledger (in memory and on disk) only if the
\* brand's workbook was closed successfully: a failed close makes scrape_brand
\* return failure, and a brand that main has just recorded has a closed
\* workbook.
C1_LedgerOnlyIfFinalized ==
    /\ (pc = "main_ret" /\ workbook = "close_failed") => result = "false"
    /\ (pc = "cap" /\ result = "true") => workbook = "closed"

\* C2 (as stated): when storing an image or appending a row failed for a
\* submodel, the ledger after the run, in memory and on disk, does not contain
\* the brand's URL; a brand recorded by the run has a row for every leaf.
C2_AtomicBrandOriginal ==
    /\ (pc = "halted" /\ url[1] = "image") =>
          /\ CurrentBrand \notin Range(processed_brands)
          /\ CurrentBrand \notin Range(ledgerFile)
    /\ (pc = "cap" /\ result = "true") => rows = FullSheet(CurrentBrand)

\* C2 (amended): when storing an image or appending a row failed for a
\* submodel, the run does not record the brand: its URL is not in the in-memory
\* ledger, and it is in the ledger file only if it was there when the run
\* started; a brand recorded by the run has a row for every leaf.
C2_AtomicBrand ==
    /\ (pc = "halted" /\ url[1] = "image") =>
          /\ CurrentBrand \notin Range(processed_brands)
          /\ CurrentBrand \in Range(ledgerFile) =>
                CurrentBrand \in Range(startLedger)
    /\ (pc = "cap" /\ result = "true") => rows = FullSheet(CurrentBrand)

\* C2 witness: the image store failed on the second leaf of a brand, after one
\* row had been written, and the run ended without recording the brand.
C2_Witness ==
    /\ pc = "halted"
    /\ url[1] = "image"
    /\ row_count = 2
    /\ DOMAIN rows = 0..1
    /\ Len(Leaves(CurrentBrand)) >= 2
    /\ CurrentBrand \notin Range(processed_brands)

\* C3: once scrape_brand has returned failure, the only step of the run is
\* main's return: nothing is fetched, no workbook is opened, the ledger is not
\* written; what follows is a new invocation.
C3_FailFast ==
    [][result = "false" =>
        \/ /\ pc' = "halted"
           /\ UNCHANGED <<ledgerFile, processed_brands, fetched, opened,
                          scrapeCalls, ledgerWrites, bi, result>>
        \/ /\ pc = "halted"
           /\ pc' = "start"]_vars

\* C3 witness: the run has halted on a failed brand while a later brand of the
\* catalog is still unprocessed.
C3_Witness ==
    /\ pc = "halted"
    /\ result = "false"
    /\ bi < Len(brands)
    /\ NotProcessed(brands[bi + 1], processed_brands)
    /\ scrapeCalls >= 2

\* C4 (as stated): a run whose ledger file holds every brand URL of the
\* catalog performs no HTTP fetch and no artifact write.
C4_IdempotentResumeOriginal ==
    (catalog # <<>> /\ Range(catalog) \subseteq Range(startLedger)) =>
        /\ fetched = {}
        /\ opened = {}

\* C4 (amended): a run whose loaded ledger holds every brand URL of the catalog
\* requests nothing but the brand listing page, calls scrape_brand for no
\* brand, opens no workbook and does not write the ledger.
C4_IdempotentResume ==
    (listing = "ok" /\ pc # "load" /\ Range(catalog) \subseteq Range(loaded)) =>
        /\ fetched \subseteq {BRANDS_URL}
        /\ scrapeCalls = 0
        /\ opened = {}
        /\ ledgerWrites = 0
        /\ ledgerFile = startLedger

\* C4 witness: a completed run over a non-empty catalog whose brands were all
\* in the loaded ledger.
C4_Witness ==
    /\ pc = "done"
    /\ catalog # <<>>
    /\ Range(catalog) \subseteq Range(loaded)
    /\ fetched = {BRANDS_URL}

\* C5: when the brand listing fails (fetch or parse), main logs and returns:
\* the run ends in the clean fatal exit, never in an unhandled fault, with no
\* brand scraped and the ledger untouched.
C5_ListingFailureHandled ==
    listing \in {"fetch_failed", "parse_failed"} =>
        /\ pc = "fatal"
        /\ scrapeCalls = 0
        /\ ledgerWrites = 0
        /\ ledgerFile = startLedger

\* C6: get_response never makes more than MAX_RETRIES requests; when it has
\* returned, no request follows a completed response (the first success or
\* status on attempt k means exactly k attempts), and a call whose requests all
\* failed at transport level made exactly MAX_RETRIES of them and returned None.
C6_RetryCeiling ==
    /\ Requests(trace) <= MAX_RETRIES
    /\ \A k \in DOMAIN RequestSeq(trace) :
          RequestSeq(trace)[k] # "transport" => k = Len(RequestSeq(trace))
    /\ pc \in RetSites =>
          IF \A k \in DOMAIN RequestSeq(trace) :
                RequestSeq(trace)[k] = "transport"
          THEN Requests(trace) = MAX_RETRIES /\ resp = "None"
          ELSE Requests(trace) >= 1

\* C6 witness: a call has returned None after MAX_RETRIES transport failures.
C6_Witness ==
    /\ pc \in RetSites
    /\ RequestSeq(trace) = [k \in 1..MAX_RETRIES |-> "transport"]
    /\ resp = "None"

\* C7: a request that completed with a non-success status is the last of its
\* call: it is followed by one sleep and the return of None, never by another
\* request.
C7_NoRetryOnStatus ==
    \A i \in DOMAIN trace :
        trace[i] = "status" =>
            IF pc = "gr_else"
            THEN i = Len(trace)
            ELSE /\ Len(trace) = i + 1
                 /\ trace[i + 1] = "sleep"
                 /\ resp = "None"
                 /\ pc \notin {"gr_loop", "gr_except"}

\* C7 witness: the first attempt got a status answer and get_response returned
\* None after that one attempt, with two attempts left.
C7_Witness ==
    /\ pc \in RetSites
    /\ trace = <<"status", "sleep">>
    /\ attempt = 0
    /\ resp = "None"

\* C8: requests and sleeps alternate, starting with a request: every request is
\* followed by exactly one sleep before the next request or the return, so the
\* sleeps of a run equal its requests whenever no request is awaiting its sleep.
C8_RateLimited ==
    /\ \A i \in DOMAIN trace : (trace[i] = "sleep") <=> (i % 2 = 0)
    /\ undelayed = IF pc \in {"gr_except", "gr_else"} THEN 1 ELSE 0
    /\ pc \notin {"gr_except", "gr_else"} => Sleeps(trace) = Requests(trace)

\* C8 witness: a call that returned after two transport failures and a success,
\* each followed by its sleep.
C8_Witness ==
    /\ pc \in RetSites
    /\ trace = <<"transport", "sleep", "transport", "sleep", "ok", "sleep">>
    /\ undelayed = 0

\* C9: a run without any failure that started with unprocessed brands in a
\* catalog larger than the cap scrapes at least one more brand.
C9_ResumeProgress ==
    (/\ pc = "done"
     /\ ~fault
     /\ Cardinality(Range(catalog)) > BRAND_CAP + 1
     /\ Range(startLedger) \subseteq Range(catalog)
     /\ Range(catalog) \ Range(startLedger) # {}) =>
        scrapeCalls >= 1

\* C10: a run calls scrape_brand at most cap = 5 times.
C10_BrandCap == scrapeCalls <= BRAND_CAP + 1

\* C10 witness: a run over a catalog of more than five brands that ended after
\* its fifth scrape_brand call with brands left unprocessed.
C10_Witness ==
    /\ pc = "done"
    /\ scrapeCalls = BRAND_CAP + 1
    /\ Range(catalog) \ Range(processed_brands) # {}

\* the brands some URL requested in this run belongs to
FetchedBrands == {u[2] : u \in {v \in fetched : Len(v) >= 2}}

\* C11 (as stated): after a successful ledger write the file holds every brand
\* recorded so far, also while the next brands are requested; and a brand that
\* is in the file when a run starts (after a crash or a regular end) is not
\* scraped in that run.
C11_ImmediatePersistenceOriginal ==
    /\ saved = "ok" => ledgerFile = processed_brands
    /\ \A b \in Range(startLedger) : b \notin FetchedBrands

\* C11 (amended): after a successful ledger write the file holds every brand
\* recorded so far, also while the next brands are requested; and a brand that
\* is in the file when a run starts is not scraped in that run if
\* load_brand_list read the file.
C11_ImmediatePersistence ==
    /\ saved = "ok" => ledgerFile = processed_brands
    /\ loaded = startLedger =>
          \A b \in Range(startLedger) : b \notin FetchedBrands

\* C11 witness: a run that found a brand of the catalog in the file and read
\* it has recorded and saved a brand and is requesting a page of the next one.
C11_Witness ==
    /\ pc = "gr_loop"
    /\ loaded = startLedger
    /\ Range(startLedger) \cap Range(catalog) # {}
    /\ saved = "ok"
    /\ Len(url) >= 2
    /\ url[2] \notin Range(processed_brands)
    /\ Len(processed_brands) < BRAND_CAP

\* C12: a failed save_brand_list does not end the run: main goes on to the cap
\* test and the next brand with the brand appended in memory; a failed read of
\* the existing file makes load_brand_list return [] and main enters its loop.
C12_LedgerFailuresSwallowed ==
    [][/\ (pc = "main_ret" /\ result = "true" /\ saved' = "failed") =>
            /\ pc' = "cap"
            /\ processed_brands' = Append(processed_brands, CurrentBrand)
       /\ (pc = "load" /\ fault' /\ ~fault) =>
            /\ processed_brands' = <<>>
            /\ loaded' = <<>>
            /\ pc' = "loop"]_vars

\* C12 witness: the read of a non-empty file failed, later a save failed, and
\* the run is requesting the page of the next brand.
C12_Witness ==
    /\ pc = "gr_loop"
    /\ startLedger # <<>>
    /\ loaded = <<>>
    /\ saved = "failed"
    /\ ledgerFile # processed_brands
    /\ Len(url) >= 2
    /\ url[2] \notin Range(processed_brands)
    /\ processed_brands # <<>>

\* no entry occurs twice in the list
Unique(l) == \A i, j \in DOMAIN l : l[i] = l[j] => i = j
\* l is an initial part of k
IsPrefix(l, k) == Len(l) <= Len(k) /\ SubSeq(k, 1, Len(l)) = l
\* the entries of f that are also in g are in the same order in g
OrderKept(f, g) ==
    \A i, j \in DOMAIN f : \A k, l \in DOMAIN g :
        (i < j /\ g[k] = f[i] /\ g[l] = f[j]) => k < l

\* C13 (as stated): the in-memory ledger and the ledger file never hold a URL
\* twice; within a run the in-memory ledger only grows at its end; the file
\* only grows at its end.
C13_OrderedSetOriginal ==
    /\ [](Unique(processed_brands) /\ Unique(ledgerFile))
    /\ [][/\ pc' # "start" => IsPrefix(processed_brands, processed_brands')
          /\ IsPrefix(ledgerFile, ledgerFile')]_vars

\* C13 (amended): the in-memory ledger and the ledger file never hold a URL
\* twice; within a run the in-memory ledger only grows at its end, one brand
\* at a time; a successful save makes the file equal to the in-memory ledger,
\* a failed one leaves it as it was or truncated; the entries that stay in the
\* file keep their order.
C13_OrderedSet ==
    /\ [](Unique(processed_brands) /\ Unique(ledgerFile))
    /\ [][/\ pc' # "start" => IsPrefix(processed_brands, processed_brands')
          /\ (pc' # "start" /\ pc # "load") =>
                Len(processed_brands') <= Len(processed_brands) + 1
          /\ OrderKept(ledgerFile, ledgerFile')
          /\ ledgerFile' # ledgerFile =>
                \/ saved' = "ok" /\ ledgerFile' = processed_brands'
                \/ saved' = "failed" /\ ledgerFile' = <<>>]_vars

\* C13 witness: the catalog lists a brand twice; the brand was recorded at its
\* first occurrence and skipped at its second.
C13_Witness ==
    /\ pc = "cap"
    /\ bi = 2
    /\ brands[1] = brands[2]
    /\ result = "none"
    /\ scrapeCalls = 1
    /\ ledgerFile = processed_brands
    /\ processed_brands = Append(loaded, brands[1])

\* t contains the two-character string c1 c2
HasPair(t, c1, c2) == \E i \in 1..(Len(t) - 1) : t[i] = c1 /\ t[i + 1] = c2
\* t ends with e
EndsWith(t, e) == Len(t) >= Len(e) /\ SubSeq(t, Len(t) - Len(e) + 1, Len(t)) = e

\* C14: two items of one brand with the same image URL and different
\* (model, submodel) captions get different file names.
C14_UniqueNames ==
    (/\ Len(image_names) = 2
     /\ <<nameItems[1].model, nameItems[1].submodel>>
            # <<nameItems[2].model, nameItems[2].submodel>>) =>
        image_names[1] # image_names[2]

\* C15: a derived file name has no forbidden character, no whitespace, no two
\* consecutive "-", and ends with "." and the extension of the image URL.
C15_SanitizedName ==
    \A k \in DOMAIN image_names :
        /\ \A i \in DOMAIN image_names[k] :
              image_names[k][i] \notin FORBIDDEN_CHARS \cup Whitespace
        /\ ~HasPair(image_names[k], "-", "-")
        /\ EndsWith(image_names[k],
                    <<".">> \o Extension(nameItems[k].image_url))

\* pixel width of the image of the leaf written at row i of the current sheet
WidthOfRow(i) == ImageWidth(CurrentBrand, rows[i][1], rows[i][2])
\* the largest image width among rows 1..i
MaxWidthUpTo(i) ==
    CHOOSE w \in {WidthOfRow(j) : j \in 1..i} : \A j \in 1..i : w >= WidthOfRow(j)
\* the column widths set while rows with image widths ws are appended
RECURSIVE ColumnWidths(_, _)
ColumnWidths(ws, cur) ==
    IF ws = <<>> THEN <<>>
    ELSE <<Max(ws[1], cur)>> \o ColumnWidths(Tail(ws), Max(ws[1], cur))

\* C16: within a brand the column width set after the i-th row is the largest
\* image width of rows 1..i, it never decreases from one row to the next, and
\* the running maximum carried to the next row is the last width set; rows of
\* widths 100, 50, 200, 10 end with a column width of 200.
C16_MonotonicWidth ==
    /\ (workbook = "open" \/ pc = "main_ret") =>
          /\ Len(widths) = Cardinality(DOMAIN rows \ {0})
          /\ \A i \in 1..Len(widths) : widths[i] = MaxWidthUpTo(i)
          /\ \A i \in 1..(Len(widths) - 1) : widths[i] <= widths[i + 1]
          /\ max_image_width = IF widths = <<>> THEN 0 ELSE widths[Len(widths)]
    /\ ColumnWidths(<<100, 50, 200, 10>>, 0) = <<100, 100, 200, 200>>

\* C16 witness: a finished brand whose second image is narrower than its
\* first: the column keeps the first width.
C16_Witness ==
    /\ pc = "main_ret"
    /\ result = "true"
    /\ Len(widths) >= 2
    /\ WidthOfRow(2) < WidthOfRow(1)
    /\ widths[2] = WidthOfRow(1)

\* C17: no URL of a brand of the ledger loaded at startup is requested in the
\* run (brand page, model pages, images), and no workbook is opened for it.
C17_LedgerGating ==
    \A b \in Range(loaded) : b \notin FetchedBrands /\ b \notin opened

\* C17 witness: a finished run that loaded a brand of the catalog from the
\* ledger, passed over it and scraped another brand.
C17_Witness ==
    /\ pc = "done"
    /\ Range(loaded) \cap Range(catalog) # {}
    /\ opened # {}
    /\ \E b \in Range(catalog) : b \notin Range(loaded) /\ b \in FetchedBrands

\* positions of main outside scrape_brand
OutsideBrand ==
    {"start", "get_brands", "load", "loop", "main_ret", "cap", "done", "fatal",
     "halted", "crashed"}
Finalized == {"closed", "close_failed"}

\* C18: a workbook is open only inside scrape_brand; close is attempted on an
\* open workbook only, in finish_brand_scraping, from where scrape_brand
\* returns; a finalized workbook gets no further row and is not closed again
\* (it is dropped when the next brand or the next invocation begins); and a
\* workbook is opened only while none is open.
C18_ArtifactLifecycle ==
    /\ [](/\ pc \in OutsideBrand => workbook # "open"
          /\ pc = "sb_finish" => workbook = "open")
    /\ [][/\ (workbook = "open" /\ workbook' # "open") =>
                /\ pc = "sb_finish"
                /\ pc' = "main_ret"
                /\ workbook' \in Finalized
          /\ workbook \in Finalized =>
                \/ workbook' = workbook /\ rows' = rows
                \/ workbook' = "none" /\ (pc = "loop" \/ pc' = "start")
          /\ (opened' # opened /\ pc' # "start") =>
                /\ workbook # "open"
                /\ workbook' = "open"
                /\ opened' = opened \cup {CurrentBrand}]_vars

\* C18 witness: scrape_brand returned failure after a row was written, with
\* the workbook closed.
C18_Witness ==
    /\ pc = "main_ret"
    /\ result = "false"
    /\ workbook = "closed"
    /\ Cardinality(DOMAIN rows) >= 2

\* C19: a brand page or model page that could not be fetched or parsed ends
\* the traversal of the brand: the traversal goes on only from a page that was
\* fetched and parsed; otherwise nothing more is requested or written for the
\* brand, scrape_brand returns failure, the brand is not recorded and the run
\* halts.
C19_NoSilentSkip ==
    [][/\ pc = "sb_page1" =>
            \/ resp = "ok" /\ pc' = "gr_loop" /\ ret' = "sb_page2"
            \/ /\ pc' = "main_ret" /\ result' = "false"
               /\ UNCHANGED <<fetched, rows, opened, mi, si>>
       /\ pc = "sb_page2" =>
            \/ resp = "ok" /\ pc' = "sb_models" /\ models' = ModelItems(CurrentBrand)
            \/ /\ pc' = "sb_finish" /\ retval' = "false"
               /\ UNCHANGED <<fetched, rows, mi, si>>
       /\ pc = "sb_model" =>
            \/ /\ resp = "ok" /\ pc' = "sb_subs"
               /\ model_page' = SubItems(CurrentBrand, models[mi])
            \/ /\ pc' = "sb_finish" /\ retval' = "false"
               /\ UNCHANGED <<fetched, rows, mi, si>>
       /\ (pc = "sb_finish" /\ retval = "false") =>
            /\ pc' = "main_ret" /\ result' = "false"
            /\ UNCHANGED <<fetched, rows, mi, si>>
       /\ (pc = "main_ret" /\ result = "false") =>
            /\ pc' = "halted"
            /\ UNCHANGED <<fetched, rows, processed_brands, ledgerFile>>]_vars

\* C19 witness: the run halted on the first of two model pages: the second
\* was never requested and the brand is not in the ledger.
C19_Witness ==
    /\ pc = "halted"
    /\ ret = "sb_model"
    /\ resp = "None"
    /\ mi = 1
    /\ Len(models) = 2
    /\ ModelUrl(CurrentBrand, models[2]) \notin fetched
    /\ CurrentBrand \notin Range(processed_brands)

=============================================================================
